---- MODULE Spec2Model ----
(***************************************************************************)
(* A model of the todo-export Lambda: the CSV encoder convertToCSV as a    *)
(* pure function over character sequences, and the export orchestration    *)
(* (handler -> exportTodoItems -> scan / put / sign / publish) of the two   *)
(* handler variants, src/unnamed/part_000 (permanent public URL) and        *)
(* src/unnamed/part_001 (pre-signed URL, manual invocation).                *)
(*                                                                         *)
(* A JavaScript string is a sequence of one-character strings, so that     *)
(* quoting, escaping, joining and sorting are computed character by        *)
(* character.                                                              *)
(***************************************************************************)
EXTENDS Integers, Sequences, FiniteSets

VARIABLES
    \* ---- convertToCSV run step by step (specification SpecCSV) ----
    cpc,        \* position inside convertToCSV
    citems,     \* its argument `items`
    allKeys,    \* the Set `allKeys`, in insertion order
    headers,    \* the array `headers`
    csvRows,    \* the array `csvRows`
    rowCells,   \* the `row` arrays built so far, one per item (cells before join)
    csvDoc,     \* the returned string
    \* ---- the deployment and the services (specification Spec) ----
    variant,    \* "public" (part_000) or "signed" (part_001)
    env,        \* the module-level `env`
    clock,      \* the wall clock, in ms since midnight (what new Date() reads)
    objects,    \* the S3 bucket: key -> body
    stored,     \* the PutObject calls that succeeded
    published,  \* the SNS messages published
    \* ---- one handler invocation per element of Invocations ----
    event,      \* the handler's argument
    hpc,        \* position inside handler
    msgIdx,     \* how many of event.Records the for loop has taken
    hres,       \* how the handler ended: returned value or thrown error
    results,    \* the completions of the exportTodoItems calls so far
    \* ---- the current exportTodoItems run of each invocation ----
    epc,        \* position inside exportTodoItems
    todoItems,  \* `items` of scanTodoItems / `todoItems`
    lastEvaluatedKey,
    pages,      \* number of ScanCommands sent
    csvContent,
    key,
    downloadUrl,
    completion, \* how exportTodoItems ended
    calls,      \* the service calls issued by the run, in order
    trace,      \* the coordinator states the run went through
    faults      \* the errors thrown inside the run, in order

csvVars == <<cpc, citems, allKeys, headers, csvRows, rowCells, csvDoc>>
worldVars == <<variant, env, clock, objects, stored, published>>
handlerVars == <<event, hpc, msgIdx, hres, results>>
exportVars == <<epc, todoItems, lastEvaluatedKey, pages, csvContent, key, downloadUrl,
                completion, calls, trace, faults>>
vars == <<csvVars, worldVars, handlerVars, exportVars>>

----------------------------------------------------------------------------
(* Characters and strings *)

QUOTE == "\""
COMMA == ","
NL == "\n"
BACKSLASH == "\\"

\* The printable ASCII characters in code-unit order: 32 .. 95 and 97 .. 126
\* (the grave accent, 96, is not used by the model).
AsciiLow ==
    << " ", "!", "\"", "#", "$", "%", "&", "'", "(", ")", "*", "+", ",", "-", ".", "/",
       "0", "1", "2", "3", "4", "5", "6", "7", "8", "9", ":", ";", "<", "=", ">", "?",
       "@", "A", "B", "C", "D", "E", "F", "G", "H", "I", "J", "K", "L", "M", "N", "O",
       "P", "Q", "R", "S", "T", "U", "V", "W", "X", "Y", "Z", "[", "\\", "]", "^", "_" >>

AsciiHigh ==
    << "a", "b", "c", "d", "e", "f", "g", "h", "i", "j", "k", "l", "m", "n", "o",
       "p", "q", "r", "s", "t", "u", "v", "w", "x", "y", "z", "{", "|", "}", "~" >>

\* The UTF-16 code unit of a character (the order Array.prototype.sort compares by).
CodeUnit(c) ==
    IF c = NL THEN 10
    ELSE IF \E i \in 1..Len(AsciiLow) : AsciiLow[i] = c
    THEN 31 + (CHOOSE i \in 1..Len(AsciiLow) : AsciiLow[i] = c)
    ELSE 96 + (CHOOSE i \in 1..Len(AsciiHigh) : AsciiHigh[i] = c)

\* a < b for JavaScript strings: lexicographic by code unit, a proper prefix first.
StrLess(a, b) ==
    \E k \in 1..Len(b) :
        /\ k <= Len(a) + 1
        /\ \A j \in 1..(k - 1) : a[j] = b[j]
        /\ (k = Len(a) + 1 \/ CodeUnit(a[k]) < CodeUnit(b[k]))

RECURSIVE Concat(_)
\* The concatenation of a sequence of strings.
Concat(ss) == IF ss = <<>> THEN <<>> ELSE Head(ss) \o Concat(Tail(ss))

RECURSIVE Join(_, _)
\* Array.prototype.join: the elements separated by sep.
Join(ss, sep) ==
    IF ss = <<>> THEN <<>>
    ELSE IF Len(ss) = 1 THEN ss[1]
    ELSE ss[1] \o sep \o Join(Tail(ss), sep)

RECURSIVE Digits(_)
\* The decimal digits of a natural number.
Digits(n) ==
    IF n < 10 THEN <<AsciiLow[17 + n]>>
    ELSE Digits(n \div 10) \o <<AsciiLow[17 + (n % 10)]>>

\* String(n) for an integer n.
NumberToString(n) == IF n < 0 THEN <<"-">> \o Digits(0 - n) ELSE Digits(n)

----------------------------------------------------------------------------
(* Values of a TodoItem (src/src/types.ts) as a tagged variant.            *)
(* An item is the sequence of its own properties <<[k, v], ...>> in        *)
(* insertion order, with distinct keys.                                    *)

Null == [t |-> "null"]
Undefined == [t |-> "undefined"]
Bool(b) == [t |-> "bool", v |-> b]
Num(n) == [t |-> "num", v |-> n]
Str(s) == [t |-> "str", v |-> s]
Obj(props) == [t |-> "obj", v |-> props]
Arr(elems) == [t |-> "arr", v |-> elems]
\* A built-in function, as found on Object.prototype.
Fn(name) == [t |-> "function", v |-> name]
Prop(name, val) == [k |-> name, v |-> val]

\* typeof value
TypeOf(value) ==
    CASE value.t \in {"null", "obj", "arr"} -> "object"
      [] value.t = "undefined" -> "undefined"
      [] value.t = "bool" -> "boolean"
      [] value.t = "num" -> "number"
      [] value.t = "str" -> "string"
      [] value.t = "function" -> "function"

\* Object.keys(item): the own property names.
ObjectKeys(item) == [i \in 1..Len(item) |-> item[i].k]

HasOwn(item, name) == \E i \in 1..Len(item) : item[i].k = name

\* The function-valued members every plain object inherits from
\* Object.prototype, with the name each function carries.
ObjectPrototype ==
    { Prop(<<"c","o","n","s","t","r","u","c","t","o","r">>, Fn(<<"O","b","j","e","c","t">>)),
      Prop(<<"v","a","l","u","e","O","f">>, Fn(<<"v","a","l","u","e","O","f">>)),
      Prop(<<"t","o","S","t","r","i","n","g">>, Fn(<<"t","o","S","t","r","i","n","g">>)) }

\* item[header]: the own property, else the inherited one, else undefined.
Get(item, name) ==
    IF HasOwn(item, name)
    THEN item[CHOOSE i \in 1..Len(item) : item[i].k = name].v
    ELSE IF \E p \in ObjectPrototype : p.k = name
    THEN (CHOOSE p \in ObjectPrototype : p.k = name).v
    ELSE Undefined

RECURSIVE JSONEscape(_)
\* The escapes JSON.stringify applies inside a string literal.
JSONEscape(s) ==
    IF s = <<>> THEN <<>>
    ELSE (CASE Head(s) = QUOTE -> <<BACKSLASH, QUOTE>>
            [] Head(s) = BACKSLASH -> <<BACKSLASH, BACKSLASH>>
            [] Head(s) = NL -> <<BACKSLASH, "n">>
            [] OTHER -> <<Head(s)>>) \o JSONEscape(Tail(s))

JSONQuote(s) == <<QUOTE>> \o JSONEscape(s) \o <<QUOTE>>

RECURSIVE JSONStringify(_)
\* JSON.stringify(value) without indentation. A member whose value is
\* undefined or a function is left out of an object and is null in an array.
JSONStringify(value) ==
    CASE value.t = "null" -> <<"n","u","l","l">>
      [] value.t = "bool" -> IF value.v THEN <<"t","r","u","e">> ELSE <<"f","a","l","s","e">>
      [] value.t = "num" -> NumberToString(value.v)
      [] value.t = "str" -> JSONQuote(value.v)
      [] value.t = "arr" ->
            <<"[">> \o
            Join([i \in 1..Len(value.v) |->
                    IF value.v[i].t \in {"undefined", "function"}
                    THEN <<"n","u","l","l">>
                    ELSE JSONStringify(value.v[i])], <<COMMA>>)
            \o <<"]">>
      [] value.t = "obj" ->
            LET kept == SelectSeq(value.v, LAMBDA p : p.v.t \notin {"undefined", "function"})
            IN  <<"{">> \o
                Join([i \in 1..Len(kept) |->
                        JSONQuote(kept[i].k) \o <<":">> \o JSONStringify(kept[i].v)], <<COMMA>>)
                \o <<"}">>

\* String(value) for a value that is neither null, undefined nor an object.
StringOf(value) ==
    CASE value.t = "str" -> value.v
      [] value.t = "num" -> NumberToString(value.v)
      [] value.t = "bool" -> IF value.v THEN <<"t","r","u","e">> ELSE <<"f","a","l","s","e">>
      [] value.t = "function" ->
            <<"f","u","n","c","t","i","o","n"," ">> \o value.v \o
            <<"(",")"," ","{"," ","[","n","a","t","i","v","e"," ","c","o","d","e","]"," ","}">>

----------------------------------------------------------------------------
(* convertToCSV *)

Range(seq) == {seq[i] : i \in 1..Len(seq)}

\* Set.prototype.add: a Set keeps insertion order and no duplicates.
SetAdd(set, name) == IF name \in Range(set) THEN set ELSE Append(set, name)

RECURSIVE AddKeys(_, _)
\* Object.keys(item).forEach(key => allKeys.add(key))
AddKeys(set, keys) ==
    IF keys = <<>> THEN set ELSE AddKeys(SetAdd(set, Head(keys)), Tail(keys))

RECURSIVE CollectKeys(_, _)
\* items.forEach(item => ...), starting from the Set `set`.
CollectKeys(set, items) ==
    IF items = <<>> THEN set
    ELSE CollectKeys(AddKeys(set, ObjectKeys(Head(items))), Tail(items))

RECURSIVE InsertSorted(_, _)
InsertSorted(sorted, x) ==
    IF sorted = <<>> THEN <<x>>
    ELSE IF StrLess(x, Head(sorted)) THEN <<x>> \o sorted
    ELSE <<Head(sorted)>> \o InsertSorted(Tail(sorted), x)

RECURSIVE SortFrom(_, _)
SortFrom(sorted, rest) ==
    IF rest = <<>> THEN sorted ELSE SortFrom(InsertSorted(sorted, Head(rest)), Tail(rest))

\* The headers left in insertion order (the .sort() call forgotten).
ArrayNoSort(a) == a

\* Array.prototype.sort() with the default comparator (strings by code unit).
ArraySort(a) == SortFrom(<<>>, a)

\* const headers = Array.from(allKeys).sort()
HeadersOf(keys) == ArraySort(keys)

\* `"${header}"`
HeaderCell(header) == <<QUOTE>> \o header \o <<QUOTE>>

RECURSIVE ReplaceQuotes(_)
\* stringValue.replace(/"/g, '""')
ReplaceQuotes(s) ==
    IF s = <<>> THEN <<>>
    ELSE (IF Head(s) = QUOTE THEN <<QUOTE, QUOTE>> ELSE <<Head(s)>>) \o ReplaceQuotes(Tail(s))

\* The callback of headers.map inside items.forEach: one data cell.
DataCell(item, header) ==
    LET value == Get(item, header)
    IN  IF value.t \in {"null", "undefined"}
        THEN <<QUOTE, QUOTE>>
        ELSE LET stringValue == IF TypeOf(value) = "object"
                                THEN JSONStringify(value)
                                ELSE StringOf(value)
             IN  <<QUOTE>> \o ReplaceQuotes(stringValue) \o <<QUOTE>>

\* const row = headers.map(...)
DataRow(item, hs) == [i \in 1..Len(hs) |-> DataCell(item, hs[i])]

\* headers.map(header => `"${header}"`).join(',')
HeaderLine(hs) == Join([i \in 1..Len(hs) |-> HeaderCell(hs[i])], <<COMMA>>)

NoDataAvailable ==
    <<"N","o"," ","d","a","t","a"," ","a","v","a","i","l","a","b","l","e", NL>>

\* csvRows.join('\n') + '\n'
JoinRows(rows) == Join(rows, <<NL>>) \o <<NL>>

\* convertToCSV(items) as one function.
ConvertToCSV(items) ==
    IF Len(items) = 0 THEN NoDataAvailable
    ELSE LET hs == HeadersOf(CollectKeys(<<>>, items))
         IN  JoinRows(<<HeaderLine(hs)>> \o
                      [n \in 1..Len(items) |-> Join(DataRow(items[n], hs), <<COMMA>>)])

----------------------------------------------------------------------------
(* Time stamps, keys and URLs *)

RECURSIVE Pad(_, _)
\* n in decimal, zero-padded to width w.
Pad(n, w) == IF w = 0 THEN <<>> ELSE Pad(n \div 10, w - 1) \o <<AsciiLow[17 + (n % 10)]>>

\* The UTC day every instant of the model lies in.
ModelDate == <<"2","0","2","5","-","0","1","-","1","5">>

\* Date.prototype.toISOString for the instant t ms after midnight of ModelDate.
ToISOString(t) ==
    ModelDate \o <<"T">> \o Pad(t \div 3600000, 2) \o <<":">>
        \o Pad((t \div 60000) % 60, 2) \o <<":">>
        \o Pad((t \div 1000) % 60, 2) \o <<".">>
        \o Pad(t % 1000, 3) \o <<"Z">>

RECURSIVE ReplaceColonDot(_)
\* .replace(/[:.]/g, '-')
ReplaceColonDot(s) ==
    IF s = <<>> THEN <<>>
    ELSE <<IF Head(s) \in {":", "."} THEN "-" ELSE Head(s)>> \o ReplaceColonDot(Tail(s))

\* const timestamp = ...; const key = `todo-export-${timestamp}.csv`
KeyAt(t) ==
    <<"t","o","d","o","-","e","x","p","o","r","t","-">>
        \o ReplaceColonDot(ToISOString(t)) \o <<".","c","s","v">>

\* `https://${env.S3_BUCKET_NAME}.s3.amazonaws.com/${key}`
PublicUrl(bucket, k) ==
    <<"h","t","t","p","s",":","/","/">> \o bucket
        \o <<".","s","3",".","a","m","a","z","o","n","a","w","s",".","c","o","m","/">> \o k

\* expiresIn: 300
ExpiresIn == 300

\* getSignedUrl(s3Client, GetObjectCommand{Bucket, Key}, {expiresIn}) at instant t:
\* the URL of the object with the signing instant and the lifetime in seconds.
PresignedUrl(bucket, k, t) ==
    [url |-> PublicUrl(bucket, k), signedAt |-> t, expires |-> ExpiresIn]

\* The first instant of the model: 10:59:59.998, so that the clock's steps
\* carry into the seconds, minutes and hours.
StartInstant == 10 * 3600000 + 59 * 60000 + 59 * 1000 + 998

----------------------------------------------------------------------------
(* The deployment, the trigger events and the services' answers *)

\* The handler invocations: "A", and "B" a concurrent activation of the same
\* function in another execution environment (same table, bucket, topic, clock).
Invocations == {"A", "B"}

\* The largest number of messages in the events of all invocations together
\* (an event counts as one message at least).
MaxMessages == 2
\* The largest number of pages the table is scanned in.
MaxPages == 2
\* The number of milliseconds the model runs for.
MaxTicks == 1

BucketName == <<"b","k","t">>
TopicArn == <<"a","r","n">>
DefaultTable == <<"T","o","d","o","I","t","e","m","s","-","d","e","v">>

\* const env = { X: process.env.X || '' }: an unset variable is the empty string.
Environments ==
    [ DYNAMODB_TABLE_NAME : {DefaultTable},
      S3_BUCKET_NAME : {<<>>, BucketName},
      SNS_TOPIC_ARN : {<<>>, TopicArn} ]

\* An SQSEvent with n Records (the messages are only logged), and an event
\* without Records (a manual invocation).
SQSEvent(n) == [Records |-> n]
ManualEvent == [manual |-> TRUE]
\* No activation of this invocation.
NoEvent == [none |-> TRUE]

\* The events a handler can be given: part_000 is an SQSHandler, part_001 a
\* Handler of `any` event.
EventsOf(v, max) ==
    {SQSEvent(n) : n \in 0..max} \cup (IF v = "signed" THEN {ManualEvent} ELSE {})

\* new Error(message)
Error(message) == [instanceofError |-> TRUE, message |-> message]

\* The rejections of the service calls and of the encoder, one per stage.
ScanFault == Error("Requested resource not found")
EncodeFault == Error("Invalid string length")
PutFault == Error("Access Denied")
SignFault == Error("Could not load credentials from any providers")
PublishFault == Error("Topic does not exist")

\* The records of the table, as unmarshall returns them.
TableItem1 == <<Prop(<<"i","d">>, Str(<<"1">>))>>
TableItem2 == <<Prop(<<"i","d">>, Str(<<"2">>)), Prop(<<"p">>, Null)>>

\* lastEvaluatedKey: undefined, or the key the scan of page p stopped after.
NoKey == [undefined |-> TRUE]
KeyAfter(p) == [after |-> p]

\* The record the table holds on page p.
TableItem(p) == IF p % 2 = 1 THEN TableItem1 ELSE TableItem2

\* What a ScanCommand can answer for page p: a ScanCommandOutput, with or
\* without Items (no Items, none on the page, or the page's record), with or
\* without LastEvaluatedKey (none on the last page the model allows), or a
\* rejection.
ScanAnswers(p) ==
    LET keys == {NoKey} \cup (IF p < MaxPages THEN {KeyAfter(p)} ELSE {})
    IN  {[fault |-> ScanFault]}
        \cup {[LastEvaluatedKey |-> k] : k \in keys}
        \cup {[Items |-> its, LastEvaluatedKey |-> k] :
                 its \in {<<>>, <<TableItem(p)>>}, k \in keys}

----------------------------------------------------------------------------
(* exportTodoItems *)

Returned(value) == [type |-> "return", value |-> value]
Thrown(error) == [type |-> "throw", error |-> error]
Pending == [type |-> "pending"]

\* The message of the thrown error dropped.
ErrorMessageUnknown(error) == "Unknown error occurred"

\* error instanceof Error ? error.message : 'Unknown error occurred'
ErrorMessage(error) ==
    IF error.instanceofError THEN error.message ELSE "Unknown error occurred"

\* A catch block that throws the error on instead of returning an outcome.
CaughtRethrow(error) == Thrown(error)

\* The catch block of exportTodoItems.
Caught(error) == Returned([success |-> FALSE, error |-> ErrorMessage(error)])

\* The return of the `todoItems.length === 0` branch.
EmptyResult ==
    [ success |-> TRUE,
      fileName |-> <<"e","m","p","t","y","-","e","x","p","o","r","t",".","c","s","v">>,
      error |-> "No items found in the table" ]

\* A success result that also carries an error message.
SuccessResultWithError(k, url) ==
    [success |-> TRUE, fileName |-> k, s3Key |-> k, downloadUrl |-> url,
     error |-> "No items found in the table"]

\* The return at the end of the try block.
SuccessResult(k, url) ==
    [success |-> TRUE, fileName |-> k, s3Key |-> k, downloadUrl |-> url]

\* A notification that names a fixed file instead of the key it is given.
NotificationFixedName(v, fileName, url, now) ==
    IF v = "public"
    THEN [ subject |-> "Todo Export Complete",
           message |-> [File |-> <<"t","o","d","o","-","e","x","p","o","r","t",".","c","s","v">>, DownloadURL |-> url],
           downloadUrl |-> url,
           fileName |-> <<"t","o","d","o","-","e","x","p","o","r","t",".","c","s","v">>,
           timestamp |-> ToISOString(now) ]
    ELSE [ subject |-> "Todo Export Complete",
           message |-> [File |-> <<"t","o","d","o","-","e","x","p","o","r","t",".","c","s","v">>, DownloadURL |-> url,
                        expiresAt |-> ToISOString(now + 5 * 60 * 1000)],
           downloadUrl |-> url,
           fileName |-> <<"t","o","d","o","-","e","x","p","o","r","t",".","c","s","v">>,
           expiresAt |-> ToISOString(now + 5 * 60 * 1000),
           timestamp |-> ToISOString(now) ]

\* The object sendNotification publishes (JSON.stringify(message, null, 2) is
\* kept as the object it serialises; the text body as the values it interpolates).
Notification(v, fileName, url, now) ==
    IF v = "public"
    THEN [ subject |-> "Todo Export Complete",
           message |-> [File |-> fileName, DownloadURL |-> url],
           downloadUrl |-> url,
           fileName |-> fileName,
           timestamp |-> ToISOString(now) ]
    ELSE [ subject |-> "Todo Export Complete",
           message |-> [File |-> fileName, DownloadURL |-> url,
                        expiresAt |-> ToISOString(now + 5 * 60 * 1000)],
           downloadUrl |-> url,
           fileName |-> fileName,
           expiresAt |-> ToISOString(now + 5 * 60 * 1000),
           timestamp |-> ToISOString(now) ]

\* An exception inside the try block: the catch block ends the run.
Fail(i, stage, error) ==
    /\ faults' = [faults EXCEPT ![i] = Append(@, [stage |-> stage, error |-> error])]
    /\ completion' = [completion EXCEPT ![i] = Caught(error)]
    /\ trace' = [trace EXCEPT ![i] = Append(@, "FAILED")]
    /\ epc' = [epc EXCEPT ![i] = "done"]

\* A scan loop that also ends at a page without records.
ScanPageStopsOnEmptyPage(i) ==
    /\ epc[i] = "scan"
    /\ \E r \in ScanAnswers(pages[i] + 1) :
        /\ calls' = [calls EXCEPT ![i] =
                        Append(@, [op |-> "scan", ExclusiveStartKey |-> lastEvaluatedKey[i],
                                   response |-> r])]
        /\ pages' = [pages EXCEPT ![i] = @ + 1]
        /\ IF "fault" \in DOMAIN r
           THEN /\ Fail(i, "fetch", r.fault)
                /\ UNCHANGED <<todoItems, lastEvaluatedKey>>
           ELSE /\ todoItems' = [todoItems EXCEPT ![i] =
                                   IF "Items" \in DOMAIN r THEN @ \o r.Items ELSE @]
                /\ lastEvaluatedKey' = [lastEvaluatedKey EXCEPT ![i] = r.LastEvaluatedKey]
                /\ IF r.LastEvaluatedKey = NoKey \/ "Items" \notin DOMAIN r \/ r.Items = <<>>
                   THEN /\ epc' = [epc EXCEPT ![i] = "fetched"]
                        /\ trace' = [trace EXCEPT ![i] = Append(@, "FETCHED")]
                   ELSE UNCHANGED <<epc, trace>>
                /\ UNCHANGED <<faults, completion>>
    /\ UNCHANGED <<csvContent, key, downloadUrl>>
    /\ UNCHANGED <<csvVars, worldVars, handlerVars>>

\* A scan that, when a page after the first is rejected, returns the records
\* fetched so far.
ScanPageKeepsPartial(i) ==
    /\ epc[i] = "scan"
    /\ \E r \in ScanAnswers(pages[i] + 1) :
        /\ calls' = [calls EXCEPT ![i] =
                        Append(@, [op |-> "scan", ExclusiveStartKey |-> lastEvaluatedKey[i],
                                   response |-> r])]
        /\ pages' = [pages EXCEPT ![i] = @ + 1]
        /\ IF "fault" \in DOMAIN r
           THEN /\ IF pages[i] = 0
                   THEN Fail(i, "fetch", r.fault)
                   ELSE /\ epc' = [epc EXCEPT ![i] = "fetched"]
                        /\ trace' = [trace EXCEPT ![i] = Append(@, "FETCHED")]
                        /\ faults' = [faults EXCEPT ![i] =
                                         Append(@, [stage |-> "fetch", error |-> r.fault])]
                        /\ UNCHANGED completion
                /\ UNCHANGED <<todoItems, lastEvaluatedKey>>
           ELSE /\ todoItems' = [todoItems EXCEPT ![i] =
                                   IF "Items" \in DOMAIN r THEN @ \o r.Items ELSE @]
                /\ lastEvaluatedKey' = [lastEvaluatedKey EXCEPT ![i] = r.LastEvaluatedKey]
                /\ IF r.LastEvaluatedKey = NoKey
                   THEN /\ epc' = [epc EXCEPT ![i] = "fetched"]
                        /\ trace' = [trace EXCEPT ![i] = Append(@, "FETCHED")]
                   ELSE UNCHANGED <<epc, trace>>
                /\ UNCHANGED <<faults, completion>>
    /\ UNCHANGED <<csvContent, key, downloadUrl>>
    /\ UNCHANGED <<csvVars, worldVars, handlerVars>>

\* await dynamoClient.send(new ScanCommand(...)) and the rest of the loop body.
\* The call is recorded with the answer it got.
ScanPage(i) ==
    /\ epc[i] = "scan"
    /\ \E r \in ScanAnswers(pages[i] + 1) :
        /\ calls' = [calls EXCEPT ![i] =
                        Append(@, [op |-> "scan", ExclusiveStartKey |-> lastEvaluatedKey[i],
                                   response |-> r])]
        /\ pages' = [pages EXCEPT ![i] = @ + 1]
        /\ IF "fault" \in DOMAIN r
           THEN /\ Fail(i, "fetch", r.fault)
                /\ UNCHANGED <<todoItems, lastEvaluatedKey>>
           ELSE /\ todoItems' = [todoItems EXCEPT ![i] =
                                   IF "Items" \in DOMAIN r THEN @ \o r.Items ELSE @]
                /\ lastEvaluatedKey' = [lastEvaluatedKey EXCEPT ![i] = r.LastEvaluatedKey]
                /\ IF r.LastEvaluatedKey = NoKey
                   THEN /\ epc' = [epc EXCEPT ![i] = "fetched"]
                        /\ trace' = [trace EXCEPT ![i] = Append(@, "FETCHED")]
                   ELSE UNCHANGED <<epc, trace>>
                /\ UNCHANGED <<faults, completion>>
    /\ UNCHANGED <<csvContent, key, downloadUrl>>
    /\ UNCHANGED <<csvVars, worldVars, handlerVars>>

\* Step 2 without the `todoItems.length === 0` return before it.
EncodeNoEmptyCheck(i) ==
    /\ epc[i] = "fetched"
    /\ \E ok \in BOOLEAN :
         IF ok
         THEN /\ csvContent' = [csvContent EXCEPT ![i] = ConvertToCSV(todoItems[i])]
              /\ trace' = [trace EXCEPT ![i] = Append(@, "ENCODED")]
              /\ epc' = [epc EXCEPT ![i] = "upload"]
              /\ UNCHANGED <<completion, faults>>
         ELSE /\ Fail(i, "encode", EncodeFault)
              /\ UNCHANGED csvContent
    /\ UNCHANGED <<todoItems, lastEvaluatedKey, pages, key, downloadUrl, calls>>
    /\ UNCHANGED <<csvVars, worldVars, handlerVars>>

\* An empty check that neither returns nor goes on to Step 2.
EncodeNeverReturnsEmpty(i) ==
    /\ epc[i] = "fetched"
    /\ IF Len(todoItems[i]) = 0
       THEN /\ epc' = [epc EXCEPT ![i] = "hung"]
            /\ UNCHANGED <<csvContent, faults, completion, trace>>
       ELSE \E ok \in BOOLEAN :
              IF ok
              THEN /\ csvContent' = [csvContent EXCEPT ![i] = ConvertToCSV(todoItems[i])]
                   /\ trace' = [trace EXCEPT ![i] = Append(@, "ENCODED")]
                   /\ epc' = [epc EXCEPT ![i] = "upload"]
                   /\ UNCHANGED <<completion, faults>>
              ELSE /\ Fail(i, "encode", EncodeFault)
                   /\ UNCHANGED csvContent
    /\ UNCHANGED <<todoItems, lastEvaluatedKey, pages, key, downloadUrl, calls>>
    /\ UNCHANGED <<csvVars, worldVars, handlerVars>>

\* The empty check and Step 2, const csvContent = convertToCSV(todoItems).
Encode(i) ==
    /\ epc[i] = "fetched"
    /\ IF Len(todoItems[i]) = 0
       THEN /\ completion' = [completion EXCEPT ![i] = Returned(EmptyResult)]
            /\ trace' = [trace EXCEPT ![i] = Append(@, "EMPTY_EXIT")]
            /\ epc' = [epc EXCEPT ![i] = "done"]
            /\ UNCHANGED <<csvContent, faults>>
       ELSE \E ok \in BOOLEAN :
              IF ok
              THEN /\ csvContent' = [csvContent EXCEPT ![i] = ConvertToCSV(todoItems[i])]
                   /\ trace' = [trace EXCEPT ![i] = Append(@, "ENCODED")]
                   /\ epc' = [epc EXCEPT ![i] = "upload"]
                   /\ UNCHANGED <<completion, faults>>
              ELSE /\ Fail(i, "encode", EncodeFault)
                   /\ UNCHANGED csvContent
    /\ UNCHANGED <<todoItems, lastEvaluatedKey, pages, key, downloadUrl, calls>>
    /\ UNCHANGED <<csvVars, worldVars, handlerVars>>

\* An upload that does not wait for scanTodoItems and convertToCSV to return.
UploadStartEarly(i) ==
    /\ epc[i] \in {"scan", "upload"}
    /\ key' = [key EXCEPT ![i] = KeyAt(clock)]
    /\ calls' = [calls EXCEPT ![i] =
                    Append(@, [op |-> "put", Bucket |-> env.S3_BUCKET_NAME,
                               Key |-> KeyAt(clock), Body |-> csvContent[i]])]
    /\ epc' = [epc EXCEPT ![i] = "put"]
    /\ UNCHANGED <<todoItems, lastEvaluatedKey, pages, csvContent, downloadUrl,
                   completion, trace, faults>>
    /\ UNCHANGED <<csvVars, worldVars, handlerVars>>

\* uploadToS3 up to s3Client.send: the key is made from the clock, then the
\* PutObjectCommand is sent.
UploadStart(i) ==
    /\ epc[i] = "upload"
    /\ key' = [key EXCEPT ![i] = KeyAt(clock)]
    /\ calls' = [calls EXCEPT ![i] =
                    Append(@, [op |-> "put", Bucket |-> env.S3_BUCKET_NAME,
                               Key |-> KeyAt(clock), Body |-> csvContent[i]])]
    /\ epc' = [epc EXCEPT ![i] = "put"]
    /\ UNCHANGED <<todoItems, lastEvaluatedKey, pages, csvContent, downloadUrl,
                   completion, trace, faults>>
    /\ UNCHANGED <<csvVars, worldVars, handlerVars>>

\* The answer of s3Client.send(PutObjectCommand) and the rest of uploadToS3.
PutResponse(i) ==
    /\ epc[i] = "put"
    /\ \E ok \in BOOLEAN :
         IF ok
         THEN /\ objects' = [k \in DOMAIN objects \cup {key[i]} |->
                               IF k = key[i] THEN csvContent[i] ELSE objects[k]]
              /\ stored' = stored \cup {[by |-> i, run |-> msgIdx[i], Key |-> key[i],
                                           replaced |-> key[i] \in DOMAIN objects]}
              /\ trace' = [trace EXCEPT ![i] = Append(@, "STORED")]
              /\ IF variant = "public"
                 THEN /\ downloadUrl' = [downloadUrl EXCEPT ![i] =
                                            PublicUrl(env.S3_BUCKET_NAME, key[i])]
                      /\ epc' = [epc EXCEPT ![i] = "publish"]
                 ELSE /\ epc' = [epc EXCEPT ![i] = "sign"]
                      /\ UNCHANGED downloadUrl
              /\ UNCHANGED <<completion, faults>>
         ELSE /\ Fail(i, "store", PutFault)
              /\ UNCHANGED <<objects, stored, downloadUrl>>
    /\ UNCHANGED <<todoItems, lastEvaluatedKey, pages, csvContent, key, calls>>
    /\ UNCHANGED <<variant, env, clock, published>>
    /\ UNCHANGED <<csvVars, handlerVars>>

\* generatePresignedUrl (part_001 only).
Sign(i) ==
    /\ epc[i] = "sign"
    /\ calls' = [calls EXCEPT ![i] =
                    Append(@, [op |-> "sign", Bucket |-> env.S3_BUCKET_NAME, Key |-> key[i]])]
    /\ \E ok \in BOOLEAN :
         IF ok
         THEN /\ downloadUrl' = [downloadUrl EXCEPT ![i] =
                                    PresignedUrl(env.S3_BUCKET_NAME, key[i], clock)]
              /\ trace' = [trace EXCEPT ![i] = Append(@, "SIGNED")]
              /\ epc' = [epc EXCEPT ![i] = "publish"]
              /\ UNCHANGED <<completion, faults>>
         ELSE /\ Fail(i, "sign", SignFault)
              /\ UNCHANGED downloadUrl
    /\ UNCHANGED <<todoItems, lastEvaluatedKey, pages, csvContent, key>>
    /\ UNCHANGED <<csvVars, worldVars, handlerVars>>

\* A sendNotification whose failure is followed by the removal of the stored
\* object.
PublishOrCleanUp(i) ==
    /\ epc[i] = "publish"
    /\ LET msg == Notification(variant, key[i], downloadUrl[i], clock)
       IN  /\ calls' = [calls EXCEPT ![i] =
                           Append(@, [op |-> "publish", TopicArn |-> env.SNS_TOPIC_ARN,
                                      Subject |-> msg.subject, Message |-> msg])]
           /\ \E ok \in BOOLEAN :
                IF ok
                THEN /\ published' = published \cup {[by |-> i, run |-> msgIdx[i],
                                                        Message |-> msg]}
                     /\ completion' = [completion EXCEPT ![i] =
                                          Returned(SuccessResult(key[i], downloadUrl[i]))]
                     /\ trace' = [trace EXCEPT ![i] = @ \o <<"NOTIFIED", "DONE">>]
                     /\ epc' = [epc EXCEPT ![i] = "done"]
                     /\ UNCHANGED <<faults, objects>>
                ELSE /\ Fail(i, "notify", PublishFault)
                     /\ objects' = [k \in DOMAIN objects \ {key[i]} |-> objects[k]]
                     /\ UNCHANGED published
    /\ UNCHANGED <<todoItems, lastEvaluatedKey, pages, csvContent, key, downloadUrl>>
    /\ UNCHANGED <<variant, env, clock, stored>>
    /\ UNCHANGED <<csvVars, handlerVars>>

\* sendNotification and the return of the success result.
Publish(i) ==
    /\ epc[i] = "publish"
    /\ LET msg == Notification(variant, key[i], downloadUrl[i], clock)
       IN  /\ calls' = [calls EXCEPT ![i] =
                           Append(@, [op |-> "publish", TopicArn |-> env.SNS_TOPIC_ARN,
                                      Subject |-> msg.subject, Message |-> msg])]
           /\ \E ok \in BOOLEAN :
                IF ok
                THEN /\ published' = published \cup {[by |-> i, run |-> msgIdx[i],
                                                        Message |-> msg]}
                     /\ completion' = [completion EXCEPT ![i] =
                                          Returned(SuccessResult(key[i], downloadUrl[i]))]
                     /\ trace' = [trace EXCEPT ![i] = @ \o <<"NOTIFIED", "DONE">>]
                     /\ epc' = [epc EXCEPT ![i] = "done"]
                     /\ UNCHANGED faults
                ELSE /\ Fail(i, "notify", PublishFault)
                     /\ UNCHANGED published
    /\ UNCHANGED <<todoItems, lastEvaluatedKey, pages, csvContent, key, downloadUrl>>
    /\ UNCHANGED <<variant, env, clock, objects, stored>>
    /\ UNCHANGED <<csvVars, handlerVars>>

\* A millisecond passes. Nothing in the code waits for the clock: any number of
\* steps of any invocation can fall into the same millisecond.
Tick ==
    /\ clock < StartInstant + MaxTicks
    /\ clock' = clock + 1
    /\ UNCHANGED <<variant, env, objects, stored, published>>
    /\ UNCHANGED <<csvVars, handlerVars, exportVars>>

----------------------------------------------------------------------------
(* handler *)

\* The messages an event counts for in MaxMessages.
Weight(e) ==
    IF e = NoEvent THEN 0
    ELSE IF "Records" \in DOMAIN e /\ e.Records > 1 THEN e.Records
    ELSE 1

\* The events of the invocations: "A" is given any event, "B" none or an SQS
\* event with one message.
Activations(v) ==
    {e \in [Invocations -> EventsOf(v, MaxMessages) \cup {NoEvent}] :
        /\ e["A"] # NoEvent
        /\ e["B"] \in {NoEvent, SQSEvent(1)}
        /\ Weight(e["A"]) + Weight(e["B"]) <= MaxMessages}

\* A call of exportTodoItems: fresh locals.
StartExport(i) ==
    /\ epc' = [epc EXCEPT ![i] = "scan"]
    /\ todoItems' = [todoItems EXCEPT ![i] = <<>>]
    /\ lastEvaluatedKey' = [lastEvaluatedKey EXCEPT ![i] = NoKey]
    /\ pages' = [pages EXCEPT ![i] = 0]
    /\ csvContent' = [csvContent EXCEPT ![i] = <<>>]
    /\ key' = [key EXCEPT ![i] = <<>>]
    /\ downloadUrl' = [downloadUrl EXCEPT ![i] = <<>>]
    /\ completion' = [completion EXCEPT ![i] = Pending]
    /\ calls' = [calls EXCEPT ![i] = <<>>]
    /\ trace' = [trace EXCEPT ![i] = <<"START">>]
    /\ faults' = [faults EXCEPT ![i] = <<>>]

\* part_001: event && event.Records && Array.isArray(event.Records) &&
\* event.Records.length > 0. part_000 iterates event.Records without asking.
IsSQSEvent(v, e) ==
    IF v = "public" THEN TRUE ELSE "Records" \in DOMAIN e /\ e.Records > 0

\* What the handler returns after the for loop.
LoopReturn(v) ==
    IF v = "public" THEN Undefined
    ELSE [statusCode |-> 200,
          body |-> [message |-> "All SQS messages processed successfully"]]

\* The validation with the SNS_TOPIC_ARN check left out.
HandlerStartNoTopicCheck(i) ==
    /\ hpc[i] = "start"
    /\ IF env.S3_BUCKET_NAME = <<>>
       THEN /\ hres' = [hres EXCEPT ![i] =
                           Thrown(Error("S3_BUCKET_NAME environment variable is required"))]
            /\ hpc' = [hpc EXCEPT ![i] = "ended"]
       ELSE /\ hpc' = [hpc EXCEPT ![i] =
                          IF IsSQSEvent(variant, event[i]) THEN "loop" ELSE "manual"]
            /\ UNCHANGED hres
    /\ UNCHANGED <<event, msgIdx, results>>
    /\ UNCHANGED <<csvVars, worldVars, exportVars>>

\* The validation of the environment variables at the top of handler.
HandlerStart(i) ==
    /\ hpc[i] = "start"
    /\ IF env.S3_BUCKET_NAME = <<>>
       THEN /\ hres' = [hres EXCEPT ![i] =
                           Thrown(Error("S3_BUCKET_NAME environment variable is required"))]
            /\ hpc' = [hpc EXCEPT ![i] = "ended"]
       ELSE IF env.SNS_TOPIC_ARN = <<>>
       THEN /\ hres' = [hres EXCEPT ![i] =
                           Thrown(Error("SNS_TOPIC_ARN environment variable is required"))]
            /\ hpc' = [hpc EXCEPT ![i] = "ended"]
       ELSE /\ hpc' = [hpc EXCEPT ![i] =
                          IF IsSQSEvent(variant, event[i]) THEN "loop" ELSE "manual"]
            /\ UNCHANGED hres
    /\ UNCHANGED <<event, msgIdx, results>>
    /\ UNCHANGED <<csvVars, worldVars, exportVars>>

\* for (const record of event.Records): the next message, or the end of the loop.
HandlerNext(i) ==
    /\ hpc[i] = "loop"
    /\ IF msgIdx[i] < event[i].Records
       THEN /\ msgIdx' = [msgIdx EXCEPT ![i] = @ + 1]
            /\ hpc' = [hpc EXCEPT ![i] = "await"]
            /\ StartExport(i)
            /\ UNCHANGED hres
       ELSE /\ hres' = [hres EXCEPT ![i] = Returned(LoopReturn(variant))]
            /\ hpc' = [hpc EXCEPT ![i] = "ended"]
            /\ UNCHANGED <<msgIdx, exportVars>>
    /\ UNCHANGED <<event, results>>
    /\ UNCHANGED <<csvVars, worldVars>>

\* A loop body that throws when the export has returned success = false.
HandlerResumeThrowsOnFailure(i) ==
    /\ hpc[i] = "await"
    /\ epc[i] = "done"
    /\ results' = [results EXCEPT ![i] = Append(@, completion[i])]
    /\ IF completion[i].type = "throw"
       THEN /\ hres' = [hres EXCEPT ![i] = Thrown(completion[i].error)]
            /\ hpc' = [hpc EXCEPT ![i] = "ended"]
       ELSE IF ~completion[i].value.success
       THEN /\ hres' = [hres EXCEPT ![i] = Thrown(Error(completion[i].value.error))]
            /\ hpc' = [hpc EXCEPT ![i] = "ended"]
       ELSE /\ hpc' = [hpc EXCEPT ![i] = "loop"]
            /\ UNCHANGED hres
    /\ UNCHANGED <<event, msgIdx>>
    /\ UNCHANGED <<csvVars, worldVars, exportVars>>

\* try { const result = await exportTodoItems(); ... } catch (error) { throw error; }
HandlerResume(i) ==
    /\ hpc[i] = "await"
    /\ epc[i] = "done"
    /\ results' = [results EXCEPT ![i] = Append(@, completion[i])]
    /\ IF completion[i].type = "throw"
       THEN /\ hres' = [hres EXCEPT ![i] = Thrown(completion[i].error)]
            /\ hpc' = [hpc EXCEPT ![i] = "ended"]
       ELSE /\ hpc' = [hpc EXCEPT ![i] = "loop"]
            /\ UNCHANGED hres
    /\ UNCHANGED <<event, msgIdx>>
    /\ UNCHANGED <<csvVars, worldVars, exportVars>>

\* part_001, manual invocation: the call of exportTodoItems.
HandlerManual(i) ==
    /\ hpc[i] = "manual"
    /\ hpc' = [hpc EXCEPT ![i] = "awaitManual"]
    /\ StartExport(i)
    /\ UNCHANGED <<event, msgIdx, hres, results>>
    /\ UNCHANGED <<csvVars, worldVars>>

\* What the manual branch returns for the completion c of exportTodoItems.
ManualReturn(c) ==
    IF c.type = "throw"
    THEN [statusCode |-> 500,
          body |-> [message |-> "Export failed with exception",
                    error |-> ErrorMessage(c.error)]]
    ELSE IF c.value.success
    THEN [statusCode |-> 200,
          body |-> IF "downloadUrl" \in DOMAIN c.value
                   THEN [message |-> "Export completed successfully",
                         fileName |-> c.value.fileName,
                         downloadUrl |-> c.value.downloadUrl]
                   ELSE [message |-> "Export completed successfully",
                         fileName |-> c.value.fileName]]
    ELSE [statusCode |-> 500,
          body |-> [message |-> "Export failed", error |-> c.value.error]]

\* part_001, manual invocation: the return after exportTodoItems.
HandlerResumeManual(i) ==
    /\ hpc[i] = "awaitManual"
    /\ epc[i] = "done"
    /\ results' = [results EXCEPT ![i] = Append(@, completion[i])]
    /\ hres' = [hres EXCEPT ![i] = Returned(ManualReturn(completion[i]))]
    /\ hpc' = [hpc EXCEPT ![i] = "ended"]
    /\ UNCHANGED <<event, msgIdx>>
    /\ UNCHANGED <<csvVars, worldVars, exportVars>>

----------------------------------------------------------------------------
(* convertToCSV, statement by statement *)

CsvEmpty ==
    /\ cpc = "start"
    /\ Len(citems) = 0
    /\ csvDoc' = NoDataAvailable
    /\ cpc' = "done"
    /\ UNCHANGED <<citems, allKeys, headers, csvRows, rowCells>>
    /\ UNCHANGED <<worldVars, handlerVars, exportVars>>

CsvCollectKeys ==
    /\ cpc = "start"
    /\ Len(citems) > 0
    /\ allKeys' = CollectKeys(<<>>, citems)
    /\ cpc' = "sort"
    /\ UNCHANGED <<citems, headers, csvRows, rowCells, csvDoc>>
    /\ UNCHANGED <<worldVars, handlerVars, exportVars>>

CsvSortHeaders ==
    /\ cpc = "sort"
    /\ headers' = HeadersOf(allKeys)
    /\ cpc' = "header"
    /\ UNCHANGED <<citems, allKeys, csvRows, rowCells, csvDoc>>
    /\ UNCHANGED <<worldVars, handlerVars, exportVars>>

CsvHeaderRow ==
    /\ cpc = "header"
    /\ csvRows' = <<HeaderLine(headers)>>
    /\ cpc' = "rows"
    /\ UNCHANGED <<citems, allKeys, headers, rowCells, csvDoc>>
    /\ UNCHANGED <<worldVars, handlerVars, exportVars>>

CsvDataRow ==
    /\ cpc = "rows"
    /\ Len(rowCells) < Len(citems)
    /\ LET row == DataRow(citems[Len(rowCells) + 1], headers)
       IN  /\ rowCells' = Append(rowCells, row)
           /\ csvRows' = Append(csvRows, Join(row, <<COMMA>>))
    /\ UNCHANGED <<cpc, citems, allKeys, headers, csvDoc>>
    /\ UNCHANGED <<worldVars, handlerVars, exportVars>>

CsvReturn ==
    /\ cpc = "rows"
    /\ Len(rowCells) = Len(citems)
    /\ csvDoc' = JoinRows(csvRows)
    /\ cpc' = "done"
    /\ UNCHANGED <<citems, allKeys, headers, csvRows, rowCells>>
    /\ UNCHANGED <<worldVars, handlerVars, exportVars>>

----------------------------------------------------------------------------
(* Inputs of convertToCSV *)

\* The largest number of records in an input of convertToCSV.
MaxRecords == 2

Sid == <<"i","d">>
Sstatus == <<"s","t","a","t","u","s">>
Spriority == <<"p","r","i","o","r","i","t","y">>
SvalueOf == <<"v","a","l","u","e","O","f">>
\* he said "hi"
SheSaidHi == <<"h","e"," ","s","a","i","d"," ",QUOTE,"h","i",QUOTE>>

\* Records with differing field sets, null and undefined values, quotes, commas
\* and newlines in values, a quote and a comma in field names, nested values, an
\* upper-case and a prefix field name, and a field named like a member of
\* Object.prototype.
CsvRecords ==
    { <<Prop(Sid, Str(<<"1">>)), Prop(Sstatus, Str(<<"p","e","n","d","i","n","g">>))>>,
      <<Prop(Sid, Str(<<"2">>)), Prop(Spriority, Str(<<"h","i","g","h">>))>>,
      <<Prop(<<"b">>, Null), Prop(<<"a">>, Str(SheSaidHi))>>,
      <<Prop(<<"n">>, Obj(<<Prop(<<"a">>, Num(1))>>)), Prop(<<"B">>, Bool(TRUE))>>,
      <<Prop(<<"q",QUOTE,"x">>, Num(-12)),
        Prop(<<"a","b">>, Arr(<<Num(1), Str(<<"x",QUOTE>>), Undefined>>))>>,
      <<Prop(SvalueOf, Str(<<"v">>))>>,
      <<Prop(<<"a",COMMA,"b">>, Str(<<"x",COMMA,"y">>)), Prop(<<"u">>, Undefined)>>,
      <<Prop(<<"a">>, Str(<<"l","1",NL,"l","2">>))>> }

RECURSIVE SeqsUpTo(_, _)
\* The sequences over S of length at most n.
SeqsUpTo(S, n) ==
    IF n = 0 THEN {<<>>}
    ELSE LET shorter == SeqsUpTo(S, n - 1)
         IN  shorter \cup {Append(q, x) : q \in shorter, x \in S}

CsvInputs == SeqsUpTo(CsvRecords, MaxRecords)

----------------------------------------------------------------------------
(* Specifications *)

\* No handler invocation: the state of the deployment before any event.
OrchestrationOff ==
    /\ variant = "public"
    /\ env = [DYNAMODB_TABLE_NAME |-> DefaultTable, S3_BUCKET_NAME |-> BucketName,
              SNS_TOPIC_ARN |-> TopicArn]
    /\ clock = StartInstant
    /\ objects = <<>>
    /\ stored = {}
    /\ published = {}
    /\ event = [i \in Invocations |-> SQSEvent(0)]
    /\ hpc = [i \in Invocations |-> "off"]
    /\ msgIdx = [i \in Invocations |-> 0]
    /\ hres = [i \in Invocations |-> Pending]
    /\ results = [i \in Invocations |-> <<>>]
    /\ epc = [i \in Invocations |-> "idle"]
    /\ todoItems = [i \in Invocations |-> <<>>]
    /\ lastEvaluatedKey = [i \in Invocations |-> NoKey]
    /\ pages = [i \in Invocations |-> 0]
    /\ csvContent = [i \in Invocations |-> <<>>]
    /\ key = [i \in Invocations |-> <<>>]
    /\ downloadUrl = [i \in Invocations |-> <<>>]
    /\ completion = [i \in Invocations |-> Pending]
    /\ calls = [i \in Invocations |-> <<>>]
    /\ trace = [i \in Invocations |-> <<>>]
    /\ faults = [i \in Invocations |-> <<>>]

\* No call of convertToCSV under way.
CsvOff ==
    /\ cpc = "off"
    /\ citems = <<>>
    /\ allKeys = <<>>
    /\ headers = <<>>
    /\ csvRows = <<>>
    /\ rowCells = <<>>
    /\ csvDoc = <<>>

\* A deployment of one of the two variants, with or without its destinations
\* configured, and the events of the invocations.
Init ==
    /\ CsvOff
    /\ variant \in {"public", "signed"}
    /\ env \in Environments
    /\ clock = StartInstant
    /\ objects = <<>>
    /\ stored = {}
    /\ published = {}
    /\ event \in Activations(variant)
    /\ hpc = [i \in Invocations |-> IF event[i] = NoEvent THEN "off" ELSE "start"]
    /\ msgIdx = [i \in Invocations |-> 0]
    /\ hres = [i \in Invocations |-> Pending]
    /\ results = [i \in Invocations |-> <<>>]
    /\ epc = [i \in Invocations |-> "idle"]
    /\ todoItems = [i \in Invocations |-> <<>>]
    /\ lastEvaluatedKey = [i \in Invocations |-> NoKey]
    /\ pages = [i \in Invocations |-> 0]
    /\ csvContent = [i \in Invocations |-> <<>>]
    /\ key = [i \in Invocations |-> <<>>]
    /\ downloadUrl = [i \in Invocations |-> <<>>]
    /\ completion = [i \in Invocations |-> Pending]
    /\ calls = [i \in Invocations |-> <<>>]
    /\ trace = [i \in Invocations |-> <<>>]
    /\ faults = [i \in Invocations |-> <<>>]

Next ==
    \/ Tick
    \/ \E i \in Invocations :
        \/ HandlerStart(i)
        \/ HandlerNext(i)
        \/ HandlerResume(i)
        \/ HandlerManual(i)
        \/ HandlerResumeManual(i)
        \/ ScanPage(i)
        \/ Encode(i)
        \/ UploadStart(i)
        \/ PutResponse(i)
        \/ Sign(i)
        \/ Publish(i)

Spec == Init /\ [][Next]_vars

\* convertToCSV applied to every input of CsvInputs.
InitCSV ==
    /\ OrchestrationOff
    /\ cpc = "start"
    /\ citems \in CsvInputs
    /\ allKeys = <<>>
    /\ headers = <<>>
    /\ csvRows = <<>>
    /\ rowCells = <<>>
    /\ csvDoc = <<>>

NextCSV ==
    \/ CsvEmpty
    \/ CsvCollectKeys
    \/ CsvSortHeaders
    \/ CsvHeaderRow
    \/ CsvDataRow
    \/ CsvReturn

SpecCSV == InitCSV /\ [][NextCSV]_vars

\* A step of the export run of invocation i.
ExportStep(i) ==
    \/ ScanPage(i)
    \/ Encode(i)
    \/ UploadStart(i)
    \/ PutResponse(i)
    \/ Sign(i)
    \/ Publish(i)

\* A step of the handler of invocation i.
HandlerStep(i) ==
    \/ HandlerStart(i)
    \/ HandlerNext(i)
    \/ HandlerResume(i)
    \/ HandlerManual(i)
    \/ HandlerResumeManual(i)

\* The deployment with every awaited call answering and every invocation going
\* on: a handler or a run that can take a step takes one.
\* The deployments of Init, the concurrent activation "B" taken in the public
\* variant only.
InitLive == Init /\ (event["B"] # NoEvent => variant = "public")

SpecLive ==
    /\ InitLive
    /\ [][Next]_vars
    /\ \A i \in Invocations : WF_vars(ExportStep(i)) /\ WF_vars(HandlerStep(i))

----------------------------------------------------------------------------
(* Properties of the export run and of the handler (specification Spec) *)

Issued(i, op) == \E n \in 1..Len(calls[i]) : calls[i][n].op = op

CountOp(i, op) == Cardinality({n \in 1..Len(calls[i]) : calls[i][n].op = op})

\* scanTodoItems has returned in the current run of i.
ScanReturned(i) == \E n \in 1..Len(trace[i]) : trace[i][n] = "FETCHED"

FaultedAt(i, stage) == \E n \in 1..Len(faults[i]) : faults[i][n].stage = stage

\* C1: a run whose exhaustive scan returned zero records issues no put, no
\* signing and no publish, stores and publishes nothing, and ends by returning
\* success = true with the "No items found" indicator and neither s3Key nor
\* downloadUrl.
C1_EmptyScanExitsWithoutStoring ==
    \A i \in Invocations :
        (ScanReturned(i) /\ Len(todoItems[i]) = 0) =>
            /\ ~Issued(i, "put") /\ ~Issued(i, "sign") /\ ~Issued(i, "publish")
            /\ \A st \in stored : ~(st.by = i /\ st.run = msgIdx[i])
            /\ \A pb \in published : ~(pb.by = i /\ pb.run = msgIdx[i])
            /\ epc[i] \in {"fetched", "done"}
            /\ epc[i] = "done" =>
                  /\ completion[i].type = "return"
                  /\ completion[i].value.success = TRUE
                  /\ completion[i].value.error = "No items found in the table"
                  /\ "s3Key" \notin DOMAIN completion[i].value
                  /\ "downloadUrl" \notin DOMAIN completion[i].value

\* A run that scanned two pages without a record has ended.
C1_Witness ==
    \E i \in Invocations :
        /\ epc[i] = "done"
        /\ ScanReturned(i)
        /\ Len(todoItems[i]) = 0
        /\ pages[i] = 2

\* C2: a run with at least one record whose PutObject is rejected ends by
\* returning success = false with the rejection's message, and issues no
\* signing and no publish.
C2_PutFailureEndsRun ==
    \A i \in Invocations :
        FaultedAt(i, "store") =>
            /\ Len(todoItems[i]) >= 1
            /\ epc[i] = "done"
            /\ completion[i].type = "return"
            /\ completion[i].value.success = FALSE
            /\ completion[i].value.error = PutFault.message
            /\ ~Issued(i, "sign") /\ ~Issued(i, "publish")
            /\ \A pb \in published : ~(pb.by = i /\ pb.run = msgIdx[i])

\* The put of a run of the signed variant was rejected.
C2_Witness ==
    \E i \in Invocations :
        /\ variant = "signed"
        /\ FaultedAt(i, "store")
        /\ epc[i] = "done"

\* C3: exportTodoItems never raises: it ends by returning an outcome; a run in
\* which a stage faulted ends at once with success = false and the message of
\* that first fault, a success outcome is returned only by a run without fault,
\* and nothing is retried (no put, signing or publish twice, no page twice).
C3_FaultsBecomeFailureOutcomes ==
    \A i \in Invocations :
        /\ completion[i].type # "throw"
        /\ \A n \in 1..Len(results[i]) : results[i][n].type = "return"
        /\ epc[i] = "done" => completion[i].type = "return"
        /\ faults[i] # <<>> =>
              /\ Len(faults[i]) = 1
              /\ epc[i] = "done"
              /\ completion[i].type = "return"
              /\ completion[i].value.success = FALSE
              /\ completion[i].value.error = faults[i][1].error.message
        /\ (epc[i] = "done" /\ completion[i].type = "return"
                /\ completion[i].value.success) => faults[i] = <<>>
        /\ CountOp(i, "put") <= 1 /\ CountOp(i, "sign") <= 1 /\ CountOp(i, "publish") <= 1
        /\ \A m, n \in 1..Len(calls[i]) :
              (m < n /\ calls[i][m].op = "scan" /\ calls[i][n].op = "scan")
                  => calls[i][m].ExclusiveStartKey # calls[i][n].ExclusiveStartKey

\* A run has ended on a rejected signing, after a scan of two pages and a put.
C3_Witness ==
    \E i \in Invocations :
        /\ epc[i] = "done"
        /\ FaultedAt(i, "sign")
        /\ pages[i] = 2

\* An export of invocation i has returned success = false.
SomeExportFailed(i) ==
    \E n \in 1..Len(results[i]) :
        results[i][n].type = "return" /\ ~results[i][n].value.success

\* C4: a handler that processed SQS messages of which an export failed ends by
\* throwing the processing error.
C4_FailedExportIsRethrown ==
    \A i \in Invocations :
        ( /\ hpc[i] = "ended"
          /\ "Records" \in DOMAIN event[i]
          /\ IsSQSEvent(variant, event[i])
          /\ SomeExportFailed(i) ) => hres[i].type = "throw"

ConfigurationMissing == env.S3_BUCKET_NAME = <<>> \/ env.SNS_TOPIC_ARN = <<>>

\* C5: with the bucket name or the topic ARN missing, the handler, whatever its
\* event, starts no export and issues no call, and ends by throwing the error
\* that names the missing variable.
C5_MissingConfigurationThrowsFirst ==
    ConfigurationMissing =>
        /\ objects = <<>> /\ stored = {} /\ published = {}
        /\ \A i \in Invocations :
              /\ calls[i] = <<>> /\ trace[i] = <<>> /\ results[i] = <<>>
              /\ epc[i] = "idle"
              /\ hpc[i] \in {"off", "start", "ended"}
              /\ hpc[i] = "ended" =>
                    hres[i] = Thrown(Error(
                        IF env.S3_BUCKET_NAME = <<>>
                        THEN "S3_BUCKET_NAME environment variable is required"
                        ELSE "SNS_TOPIC_ARN environment variable is required"))

\* The handler of the signed variant has ended on a manual event with only the
\* topic ARN missing.
C5_Witness ==
    \E i \in Invocations :
        /\ hpc[i] = "ended"
        /\ variant = "signed"
        /\ event[i] = ManualEvent
        /\ env.S3_BUCKET_NAME # <<>>
        /\ env.SNS_TOPIC_ARN = <<>>

\* C6: any two runs that stored an artifact stored under distinct keys, and no
\* put replaced an object another run had stored.
C6_StoredKeysAreDistinct ==
    /\ \A s1, s2 \in stored : s1 # s2 => s1.Key # s2.Key
    /\ \A st \in stored : ~st.replaced

----------------------------------------------------------------------------
(* Properties of convertToCSV (specification SpecCSV) *)

RECURSIVE LexBefore(_, _)
\* a sorts strictly before b: at the first position where they differ a has the
\* smaller code unit, or a ends there and b does not.
LexBefore(a, b) ==
    IF b = <<>> THEN FALSE
    ELSE IF a = <<>> THEN TRUE
    ELSE IF CodeUnit(Head(a)) < CodeUnit(Head(b)) THEN TRUE
    ELSE IF CodeUnit(Head(a)) > CodeUnit(Head(b)) THEN FALSE
    ELSE LexBefore(Tail(a), Tail(b))

\* The field names present in any record of items (whatever their values).
FieldNames(items) ==
    UNION {{items[n][j].k : j \in 1..Len(items[n])} : n \in 1..Len(items)}

\* The permutations of a sequence.
Reorderings(q) ==
    {[n \in 1..Len(q) |-> q[f[n]]] :
        f \in {g \in [1..Len(q) -> 1..Len(q)] : \A a, b \in 1..Len(q) : g[a] = g[b] => a = b}}

\* C7: for a non-empty record collection the headers are exactly the field
\* names present in any record (also those whose value is null), in strictly
\* ascending lexicographic order without duplicates, and every permutation of
\* the records gives the same headers.
C7_HeadersAreSortedUnionOfFieldNames ==
    (cpc \in {"header", "rows", "done"} /\ Len(citems) > 0) =>
        /\ Range(headers) = FieldNames(citems)
        /\ Cardinality(Range(headers)) = Len(headers)
        /\ \A a, b \in 1..Len(headers) : a < b => LexBefore(headers[a], headers[b])
        /\ \A q \in Reorderings(citems) : HeadersOf(CollectKeys(<<>>, q)) = headers

\* convertToCSV has returned for two records whose keys were not met in sorted
\* order, one of them holding null.
C7_Witness ==
    /\ cpc = "done"
    /\ Len(citems) = 2
    /\ headers # allKeys
    /\ \E n \in 1..Len(citems) : \E j \in 1..Len(citems[n]) : citems[n][j].v = Null

\* The value record `item` holds for a field, absent when it has no such field.
OwnValue(item, name) ==
    IF HasOwn(item, name)
    THEN item[CHOOSE j \in 1..Len(item) : item[j].k = name].v
    ELSE Undefined

\* The text of a value: empty for null or absent, the compact JSON text for an
\* object or array, the canonical text for a number, boolean or string.
TextOf(value) ==
    CASE value.t \in {"null", "undefined"} -> <<>>
      [] value.t \in {"obj", "arr"} -> JSONStringify(value)
      [] OTHER -> StringOf(value)

\* s with every quote character doubled.
DoubleQuotes(s) ==
    Concat([n \in 1..Len(s) |-> IF s[n] = QUOTE THEN <<QUOTE, QUOTE>> ELSE <<s[n]>>])

\* A cell: the text, quotes doubled, between quotes.
QuotedCell(text) == <<QUOTE>> \o DoubleQuotes(text) \o <<QUOTE>>

RECURSIVE ReadCell(_, _)
\* Reads a quoted cell whose opening quote was consumed: a doubled quote is a
\* quote of the text, a single one closes the cell.
ReadCell(s, text) ==
    IF s = <<>> THEN [ok |-> FALSE]
    ELSE IF Head(s) # QUOTE THEN ReadCell(Tail(s), Append(text, Head(s)))
    ELSE IF Len(s) >= 2 /\ s[2] = QUOTE THEN ReadCell(Tail(Tail(s)), Append(text, QUOTE))
    ELSE [ok |-> TRUE, text |-> text, rest |-> Tail(s)]

RECURSIVE ReadRows(_, _, _)
\* Reads rows of quoted, comma-separated cells, each row ended by a newline.
ReadRows(s, rows, row) ==
    IF s = <<>> THEN (IF row = <<>> THEN [ok |-> TRUE, rows |-> rows] ELSE [ok |-> FALSE])
    ELSE IF Head(s) # QUOTE THEN [ok |-> FALSE]
    ELSE LET c == ReadCell(Tail(s), <<>>)
         IN  IF ~c.ok THEN [ok |-> FALSE]
             ELSE IF c.rest = <<>> THEN [ok |-> FALSE]
             ELSE IF Head(c.rest) = COMMA /\ Len(c.rest) >= 2
             THEN ReadRows(Tail(c.rest), rows, Append(row, c.text))
             ELSE IF Head(c.rest) = NL
             THEN ReadRows(Tail(c.rest), Append(rows, Append(row, c.text)), <<>>)
             ELSE [ok |-> FALSE]

\* The rows of cell texts a reader of quoted CSV finds in doc.
DecodeCSV(doc) == ReadRows(doc, <<>>, <<>>)

\* C8: the document of a non-empty record collection reads as the header row
\* followed by one row per record in fetch order, every row with exactly
\* Len(schema) cells in schema order; a record that lacks a field, or holds
\* null for it, has the empty cell "" there; the document ends with a single
\* newline.
C8_RowsFollowSchema ==
    (cpc = "done" /\ Len(citems) > 0) =>
        LET doc == DecodeCSV(csvDoc)
        IN  /\ doc.ok
            /\ Len(doc.rows) = 1 + Len(citems)
            /\ \A r \in 1..Len(doc.rows) : Len(doc.rows[r]) = Len(headers)
            /\ doc.rows[1] = headers
            /\ \A n \in 1..Len(citems) : \A j \in 1..Len(headers) :
                  /\ doc.rows[n + 1][j] = TextOf(OwnValue(citems[n], headers[j]))
                  /\ OwnValue(citems[n], headers[j]).t \in {"null", "undefined"} =>
                        rowCells[n][j] = <<QUOTE, QUOTE>>
            /\ csvDoc[Len(csvDoc)] = NL
            /\ csvDoc[Len(csvDoc) - 1] # NL

\* C9: every data cell is a quote, the text of the record's value for the
\* column with every quote doubled, and a quote; he said "hi" gives
\* "he said ""hi""" and {a:1} gives "{""a"":1}".
C9_DataCellsAreQuotedAndEscaped ==
    \A n \in 1..Len(rowCells) : \A j \in 1..Len(headers) :
        LET value == OwnValue(citems[n], headers[j])
        IN  /\ rowCells[n][j] = QuotedCell(TextOf(value))
            /\ value = Str(SheSaidHi) =>
                  rowCells[n][j] = <<QUOTE,"h","e"," ","s","a","i","d"," ",QUOTE,QUOTE,
                                     "h","i",QUOTE,QUOTE,QUOTE>>
            /\ value = Obj(<<Prop(<<"a">>, Num(1))>>) =>
                  rowCells[n][j] = <<QUOTE,"{",QUOTE,QUOTE,"a",QUOTE,QUOTE,":","1","}",QUOTE>>

\* C10: the header row is made of the field names, each between quotes with
\* every quote inside the name doubled, separated by commas.
C10_HeaderCellsAreEscaped ==
    (cpc \in {"rows", "done"} /\ Len(citems) > 0) =>
        csvRows[1] = Join([j \in 1..Len(headers) |-> QuotedCell(headers[j])], <<COMMA>>)

\* C11: the document of a non-empty record collection, read as rows of quoted,
\* comma-separated cells with doubled quotes, gives back the headers in its
\* first row and, for every field of every record that holds a string, a number
\* or a boolean, the text of that value in the record's row.
C11_DecodingRecoversHeadersAndScalars ==
    (cpc = "done" /\ Len(citems) > 0) =>
        LET doc == DecodeCSV(csvDoc)
        IN  /\ doc.ok
            /\ Len(doc.rows) = 1 + Len(citems)
            /\ doc.rows[1] = headers
            /\ \A n \in 1..Len(citems) : \A j \in 1..Len(headers) :
                  (HasOwn(citems[n], headers[j])
                      /\ OwnValue(citems[n], headers[j]).t \in {"str", "num", "bool"})
                  => /\ j <= Len(doc.rows[n + 1])
                     /\ doc.rows[n + 1][j] = StringOf(OwnValue(citems[n], headers[j]))

----------------------------------------------------------------------------
(* Further properties of the export run and of the handler (specification Spec) *)

\* C12: in the signed variant the expiry the published notification states, in
\* its text and in its expiresAt field, is the instant the signed URL expires:
\* the instant of signing plus the ExpiresIn seconds of the signature.
C12_StatedExpiryIsUrlExpiry ==
    \A pb \in published :
        variant = "signed" =>
            LET url == pb.Message.downloadUrl
                expiry == ToISOString(url.signedAt + url.expires * 1000)
            IN  /\ pb.Message.expiresAt = expiry
                /\ pb.Message.message.expiresAt = expiry

\* An outcome with the artifact: key and download URL, no error message.
IsArtifactOutcome(o) ==
    /\ o.success
    /\ "s3Key" \in DOMAIN o /\ "downloadUrl" \in DOMAIN o
    /\ "error" \notin DOMAIN o

\* An outcome without data: the indicator, neither key nor download URL.
IsNoDataOutcome(o) ==
    /\ o.success
    /\ "s3Key" \notin DOMAIN o /\ "downloadUrl" \notin DOMAIN o
    /\ "error" \in DOMAIN o /\ o.error = "No items found in the table"

\* A failure outcome: a message, neither key nor download URL.
IsFailureOutcome(o) ==
    /\ ~o.success
    /\ "error" \in DOMAIN o
    /\ "s3Key" \notin DOMAIN o /\ "downloadUrl" \notin DOMAIN o

\* The number of the three shapes o has.
ShapesOf(o) ==
    Cardinality({n \in 1..3 : \/ n = 1 /\ IsArtifactOutcome(o)
                              \/ n = 2 /\ IsNoDataOutcome(o)
                              \/ n = 3 /\ IsFailureOutcome(o)})

\* C13: every outcome exportTodoItems has returned is of exactly one of the
\* three shapes: success with key and download URL and no error message,
\* success with the no-data indicator and neither key nor URL, or failure with
\* an error message and neither key nor URL.
C13_OutcomeHasOneOfThreeShapes ==
    \A i \in Invocations :
        /\ completion[i].type = "return" => ShapesOf(completion[i].value) = 1
        /\ \A n \in 1..Len(results[i]) :
              results[i][n].type = "return" /\ ShapesOf(results[i][n].value) = 1

\* An invocation has got an outcome without data for its first message and an
\* outcome with the artifact for its second.
C13_Witness ==
    \E i \in Invocations :
        /\ Len(results[i]) = 2
        /\ IsNoDataOutcome(results[i][1].value)
        /\ IsArtifactOutcome(results[i][2].value)

\* The stages of a run that meets no fault and at least one record.
StagePath(v) ==
    IF v = "public"
    THEN <<"START", "FETCHED", "ENCODED", "STORED", "NOTIFIED", "DONE">>
    ELSE <<"START", "FETCHED", "ENCODED", "STORED", "SIGNED", "NOTIFIED", "DONE">>

TerminalStages == {"EMPTY_EXIT", "DONE", "FAILED"}

IsPrefix(a, b) == Len(a) <= Len(b) /\ \A n \in 1..Len(a) : a[n] = b[n]

Reached(i, stage) == \E n \in 1..Len(trace[i]) : trace[i][n] = stage

\* The stages t follow the transitions of the run: a prefix of the path, the
\* empty exit after FETCHED, or a prefix that ends before DONE followed by FAILED.
FollowsTransitions(t, v) ==
    \/ t = <<>>
    \/ IsPrefix(t, StagePath(v))
    \/ t = <<"START", "FETCHED", "EMPTY_EXIT">>
    \/ /\ Len(t) >= 2
       /\ t[Len(t)] = "FAILED"
       /\ IsPrefix(SubSeq(t, 1, Len(t) - 1), StagePath(v))
       /\ t[Len(t) - 1] \notin TerminalStages

\* The place of a call in the order of the stages.
StageRank(op) ==
    CASE op = "scan" -> 1 [] op = "put" -> 2 [] op = "sign" -> 3 [] op = "publish" -> 4

\* The stages and calls of every run are in order.
RunsAreOrdered ==
    \A i \in Invocations :
        /\ FollowsTransitions(trace[i], variant)
        /\ \A m, n \in 1..Len(calls[i]) :
              m < n => /\ StageRank(calls[i][m].op) <= StageRank(calls[i][n].op)
                       /\ calls[i][n].op # "scan" =>
                             StageRank(calls[i][m].op) < StageRank(calls[i][n].op)
        /\ Issued(i, "put") => Reached(i, "FETCHED") /\ Reached(i, "ENCODED")
        /\ Issued(i, "sign") => variant = "signed" /\ Reached(i, "STORED")
        /\ Issued(i, "publish") =>
              /\ Reached(i, "STORED")
              /\ variant = "signed" => Reached(i, "SIGNED")
        /\ epc[i] = "done" <=>
              (trace[i] # <<>> /\ trace[i][Len(trace[i])] \in TerminalStages)

\* A step leaves the stages and calls of a run alone, or adds to them while the
\* run has not ended, or begins the next run.
RunsOnlyAdvance ==
    \A i \in Invocations :
        \/ trace'[i] = trace[i] /\ calls'[i] = calls[i]
        \/ trace'[i] = <<"START">> /\ calls'[i] = <<>>
              /\ (trace[i] = <<>> \/ trace[i][Len(trace[i])] \in TerminalStages)
        \/ /\ trace[i] # <<>>
           /\ trace[i][Len(trace[i])] \notin TerminalStages
           /\ IsPrefix(trace[i], trace'[i])
           /\ IsPrefix(calls[i], calls'[i])

\* C14: every run follows START, FETCHED, then EMPTY_EXIT or ENCODED, STORED
\* (SIGNED in the signed variant), NOTIFIED, DONE, or goes to FAILED from a step
\* that is not terminal; the put is issued after the scan returned, the publish
\* after the put (and the signing) succeeded, each stage once; after
\* EMPTY_EXIT, DONE or FAILED the run issues no call and reaches no stage.
C14_RunFollowsStateMachine == [] RunsAreOrdered /\ [][RunsOnlyAdvance]_vars

\* A run of the signed variant has gone through all stages and the run before
\* it failed after the put.
C14_Witness ==
    \E i \in Invocations :
        /\ variant = "signed"
        /\ trace[i] = StagePath("signed")
        /\ Len(results[i]) = 1
        /\ ~results[i][1].value.success
        /\ \E st \in stored : st.by = i /\ st.run = 1

\* The ScanCommands run i has sent, with their answers, in order.
ScanCalls(i) == SelectSeq(calls[i], LAMBDA c : c.op = "scan")

\* response.Items, none when the answer has no Items.
ItemsOf(r) == IF "Items" \in DOMAIN r THEN r.Items ELSE <<>>

Answered(c) == "fault" \notin DOMAIN c.response

\* C15: the first ScanCommand carries no continuation token and every later one
\* the token the page before it returned; the scan goes on while pages return a
\* token, also pages with no or empty Items, and returns at the first page
\* without one; the records are those of all pages asked for, in page order.
C15_ScanChainsTokensAndAccumulates ==
    \A i \in Invocations :
        LET sc == ScanCalls(i)
            last == sc[Len(sc)]
        IN  /\ Len(sc) >= 1 => sc[1].ExclusiveStartKey = NoKey
            /\ \A n \in 2..Len(sc) :
                  /\ Answered(sc[n - 1])
                  /\ sc[n - 1].response.LastEvaluatedKey # NoKey
                  /\ sc[n].ExclusiveStartKey = sc[n - 1].response.LastEvaluatedKey
            /\ ScanReturned(i) => Len(sc) >= 1 /\ Answered(last)
            /\ (Len(sc) >= 1 /\ Answered(last)) =>
                  /\ ScanReturned(i) <=> last.response.LastEvaluatedKey = NoKey
                  /\ last.response.LastEvaluatedKey # NoKey => epc[i] = "scan"
                  /\ todoItems[i] =
                        Concat([n \in 1..Len(sc) |-> ItemsOf(sc[n].response)])

\* A scan has returned after two pages: the first without Items and with a
\* token, the second with a record.
C15_Witness ==
    \E i \in Invocations :
        /\ ScanReturned(i)
        /\ Len(ScanCalls(i)) = 2
        /\ "Items" \notin DOMAIN ScanCalls(i)[1].response
        /\ ScanCalls(i)[2].ExclusiveStartKey = KeyAfter(1)
        /\ Len(todoItems[i]) = 1

\* C16: a run in which a page request was rejected, after any number of pages,
\* has ended with success = false and the rejection's message; it issues no put,
\* no signing and no publish, and stores and publishes nothing.
C16_ScanFailureDiscardsPages ==
    \A i \in Invocations :
        FaultedAt(i, "fetch") =>
            /\ epc[i] = "done"
            /\ completion[i] = Returned([success |-> FALSE, error |-> ScanFault.message])
            /\ ~ScanReturned(i)
            /\ ~Issued(i, "put") /\ ~Issued(i, "sign") /\ ~Issued(i, "publish")
            /\ \A st \in stored : ~(st.by = i /\ st.run = msgIdx[i])
            /\ \A pb \in published : ~(pb.by = i /\ pb.run = msgIdx[i])

\* The second page of a scan was rejected after the first had given a record.
C16_Witness ==
    \E i \in Invocations :
        /\ FaultedAt(i, "fetch")
        /\ Len(ScanCalls(i)) = 2
        /\ Len(todoItems[i]) = 1
        /\ epc[i] = "done"

\* The put of the current run of i has succeeded.
PutSucceeded(i) == \E st \in stored : st.by = i /\ st.run = msgIdx[i] /\ st.Key = key[i]

\* C17: a run whose put succeeded and whose signing or publish was rejected
\* ends with success = false and the message of that rejection; the object it
\* stored stays in the bucket, with the document of the run unless another run
\* stored under the same key; the run issues one put and no other call that
\* writes the bucket.
C17_NoCleanupAfterLaterFault ==
    \A i \in Invocations :
        (FaultedAt(i, "sign") \/ FaultedAt(i, "notify")) =>
            /\ PutSucceeded(i)
            /\ epc[i] = "done"
            /\ completion[i] =
                  Returned([success |-> FALSE,
                            error |-> IF FaultedAt(i, "sign") THEN SignFault.message
                                      ELSE PublishFault.message])
            /\ key[i] \in DOMAIN objects
            /\ (\A st \in stored : st.Key = key[i] => (st.by = i /\ st.run = msgIdx[i]))
                  => objects[key[i]] = csvContent[i]
            /\ CountOp(i, "put") = 1
            /\ \A n \in 1..Len(calls[i]) : calls[i][n].op \in {"scan", "put", "sign", "publish"}
            /\ \A pb \in published : ~(pb.by = i /\ pb.run = msgIdx[i])

\* A run of the public variant has ended on a rejected publish.
C17_Witness ==
    \E i \in Invocations :
        /\ variant = "public"
        /\ FaultedAt(i, "notify")
        /\ epc[i] = "done"
        /\ key[i] \in DOMAIN objects

\* The export run of invocation i is under way.
Running(i) == epc[i] \notin {"idle", "done"}

\* The scan of i is in its loop as long as the last page returned a token.
ScanGoesOnWhileTokens ==
    \A i \in Invocations :
        LET sc == ScanCalls(i)
        IN  (Len(sc) >= 1 /\ Answered(sc[Len(sc)])
                /\ sc[Len(sc)].response.LastEvaluatedKey # NoKey)
            => /\ epc[i] = "scan"
               /\ completion[i] = Pending
               /\ pages[i] = Len(sc)

\* C18: with every call answering and the table ending after finitely many
\* pages, every run that has started reaches EMPTY_EXIT, DONE or FAILED and
\* returns an outcome; the scan stays in its loop, whatever the number of pages
\* read, as long as the pages return a token.
C18_EveryRunTerminates ==
    /\ \A i \in Invocations :
          Running(i) ~> ( /\ epc[i] = "done"
                          /\ completion[i].type = "return"
                          /\ trace[i][Len(trace[i])] \in TerminalStages )
    /\ [] ScanGoesOnWhileTokens

\* A run has returned after a scan of as many pages as the table has, every
\* page but the last with a token.
C18_Witness ==
    \E i \in Invocations :
        /\ epc[i] = "done"
        /\ completion[i].type = "return"
        /\ Len(ScanCalls(i)) = MaxPages
        /\ ScanReturned(i)

\* The event of invocation i carries at least one message.
HasMessages(i) == "Records" \in DOMAIN event[i] /\ event[i].Records >= 1

\* The runs of the handler of i so far: one per message met, in order, the
\* earlier ones ended and their outcomes kept whatever they are.
RunsFollowMessages ==
    \A i \in Invocations :
        (HasMessages(i) /\ ~ConfigurationMissing) =>
            /\ msgIdx[i] <= event[i].Records
            /\ hpc[i] = "start" => msgIdx[i] = 0 /\ results[i] = <<>> /\ epc[i] = "idle"
            /\ hpc[i] = "await" => msgIdx[i] >= 1 /\ Len(results[i]) = msgIdx[i] - 1
            /\ hpc[i] = "loop" => Len(results[i]) = msgIdx[i] /\ ~Running(i)
            /\ Running(i) => hpc[i] = "await"
            /\ hpc[i] \in {"start", "loop", "await", "ended"}
            /\ hpc[i] = "ended" =>
                  /\ hres[i] = Returned(LoopReturn(variant))
                  /\ msgIdx[i] = event[i].Records
                  /\ Len(results[i]) = event[i].Records
                  /\ ~Running(i)

\* The handler goes to the next message only when the run for the one before
\* has ended and its outcome is kept, and then starts one run.
NextRunAfterPrevious ==
    \A i \in Invocations :
        msgIdx'[i] # msgIdx[i] =>
            /\ msgIdx'[i] = msgIdx[i] + 1
            /\ ~Running(i)
            /\ Len(results[i]) = msgIdx[i]
            /\ epc'[i] = "scan" /\ trace'[i] = <<"START">> /\ calls'[i] = <<>>

CallsButSigning(i) == SelectSeq(calls[i], LAMBDA c : c.op # "sign")

\* The operations of a sequence of calls.
OpsOf(cs) == [n \in 1..Len(cs) |-> cs[n].op]

\* C20: whatever the variant, a handler given an event with a message list
\* (also an empty one) runs one export per message, so none for an empty list,
\* and a run that met no fault and at least one record issues, the signing
\* left aside, its scans, then one put, then one publish, and returns success;
\* a run returns success exactly when no call of it was rejected.
C20_VariantsDifferOnlyInUrl ==
    \A i \in Invocations :
        ("Records" \in DOMAIN event[i] /\ ~ConfigurationMissing) =>
            /\ msgIdx[i] <= event[i].Records
            /\ Len(results[i]) <= event[i].Records
            /\ hpc[i] = "ended" => Len(results[i]) = event[i].Records
            /\ event[i].Records = 0 =>
                  /\ calls[i] = <<>>
                  /\ \A st \in stored : st.by # i
                  /\ \A pb \in published : pb.by # i
            /\ (epc[i] = "done" /\ completion[i].type = "return") =>
                  /\ completion[i].value.success <=> faults[i] = <<>>
                  /\ (faults[i] = <<>> /\ Len(todoItems[i]) > 0) =>
                        OpsOf(CallsButSigning(i)) =
                            [n \in 1..pages[i] |-> "scan"] \o <<"put", "publish">>

\* The calls of run i of the operation op.
CallsOf(i, op) == SelectSeq(calls[i], LAMBDA c : c.op = op)

\* C21: a run that has returned success with an artifact key met no rejection
\* and issued exactly one put and exactly one publish, both answered; the put
\* carried, under the returned key, the document encoded from exactly the
\* records the pages of the scan returned; the published notification names
\* the key and the download URL of the returned outcome.
C21_SuccessOutcomeMatchesEffects ==
    \A i \in Invocations :
        ( /\ epc[i] = "done"
          /\ completion[i].type = "return"
          /\ completion[i].value.success
          /\ "s3Key" \in DOMAIN completion[i].value ) =>
            LET o == completion[i].value
                puts == CallsOf(i, "put")
                pubs == CallsOf(i, "publish")
                sc == ScanCalls(i)
                mine == {st \in stored : st.by = i /\ st.run = msgIdx[i]}
                sent == {pb \in published : pb.by = i /\ pb.run = msgIdx[i]}
            IN  /\ faults[i] = <<>>
                /\ Len(puts) = 1 /\ Len(pubs) = 1
                /\ Cardinality(mine) = 1 /\ Cardinality(sent) = 1
                /\ \A n \in 1..Len(sc) : Answered(sc[n])
                /\ todoItems[i] = Concat([n \in 1..Len(sc) |-> ItemsOf(sc[n].response)])
                /\ puts[1].Body = ConvertToCSV(todoItems[i])
                /\ puts[1].Key = o.s3Key
                /\ puts[1].Bucket = env.S3_BUCKET_NAME
                /\ \A st \in mine : st.Key = o.s3Key
                /\ o.fileName = o.s3Key
                /\ \A pb \in sent :
                      /\ pb.Message = pubs[1].Message
                      /\ pb.Message.fileName = o.s3Key
                      /\ pb.Message.message.File = o.s3Key
                      /\ pb.Message.downloadUrl = o.downloadUrl
                      /\ pb.Message.message.DownloadURL = o.downloadUrl

\* A run of the signed variant has returned success after a scan of two pages
\* that gave a record each.
C21_Witness ==
    \E i \in Invocations :
        /\ variant = "signed"
        /\ epc[i] = "done"
        /\ completion[i].type = "return"
        /\ IsArtifactOutcome(completion[i].value)
        /\ Len(ScanCalls(i)) = 2
        /\ Len(todoItems[i]) = 2

====
